---- MODULE Spec2Model ----
(***************************************************************************)
(* Study Schedule Manager (src/app.py): one SQLite table `schedules`, the  *)
(* four statements that read and write it, the sidebar and Manage-tab form *)
(* handlers that call them, and the Weekly Calendar projection.            *)
(*                                                                         *)
(* TEXT columns that the program compares or orders (study_date, session)  *)
(* are sequences of one-character strings, ordered by byte value as        *)
(* SQLite's default BINARY collation orders them.  The other TEXT columns  *)
(* are strings; the program only tests them for emptiness and copies them. *)
(***************************************************************************)
EXTENDS Integers, Sequences, FiniteSets, TLC

VARIABLES
    rows,           \* the rows of table schedules (a set of records)
    seq,            \* sqlite_sequence.seq for schedules: largest rowid ever used
    now,            \* the clock CURRENT_TIMESTAMP reads
    selected_date,  \* the Weekly Calendar date_input
    last,           \* history: the last handler that ran, its arguments, the message it showed
                    \* (st.success / st.error) and, for the Manage tab, whether the row existed
    issued          \* history: every id INSERT has ever assigned

vars == <<rows, seq, now, selected_date, last, issued>>

(* What a script run draws (the listing, the week, the grid) is a function of  *)
(* rows and selected_date: every run reads the table again.  It is defined    *)
(* below as operators of the state (get_all_schedules, week_start, week_dates,*)
(* WeeklyCalendar) and is not kept in variables.                              *)

-----------------------------------------------------------------------------
(* Bounds of the model *)

\* at most MaxSeq INSERTs in one behaviour (ids 1..MaxSeq)
MaxSeq == 2
\* the clock takes the values 0..MaxClock
MaxClock == 1
\* the week computation is explored on RefSpan+1 consecutive reference dates
RefSpan == 335

-----------------------------------------------------------------------------
(* datetime.date: proleptic Gregorian calendar arithmetic *)

Date(y, m, d) == [year |-> y, month |-> m, day |-> d]

is_leap(y) == y % 4 = 0 /\ (y % 100 # 0 \/ y % 400 = 0)

days_in_month(y, m) ==
    IF m = 2 THEN (IF is_leap(y) THEN 29 ELSE 28)
    ELSE IF m \in {4, 6, 9, 11} THEN 30 ELSE 31

days_before_year(y) ==
    LET p == y - 1 IN p * 365 + (p \div 4) - (p \div 100) + (p \div 400)

RECURSIVE days_before_month(_, _)
days_before_month(y, m) ==
    IF m = 1 THEN 0 ELSE days_before_month(y, m - 1) + days_in_month(y, m - 1)

toordinal(dt) == days_before_year(dt.year) + days_before_month(dt.year, dt.month) + dt.day

\* the month holding day-of-year offset n (0-based) of year y, searched upward from January
RECURSIVE month_of(_, _, _)
month_of(y, n, m) ==
    IF n < days_before_month(y, m) + days_in_month(y, m) THEN m ELSE month_of(y, n, m + 1)

fromordinal(n) ==
    LET n0   == n - 1
        n400 == n0 \div 146097
        r400 == n0 % 146097
        n100 == r400 \div 36524
        r100 == r400 % 36524
        n4   == r100 \div 1461
        r4   == r100 % 1461
        n1   == r4 \div 365
        r1   == r4 % 365
        y    == n400 * 400 + n100 * 100 + n4 * 4 + n1 + 1
    IN  IF n1 = 4 \/ n100 = 4
        THEN Date(y - 1, 12, 31)
        ELSE LET m == month_of(y, r1, 1)
             IN  Date(y, m, r1 - days_before_month(y, m) + 1)

\* a weekday numbered from Sunday = 0
weekday_sunday0(dt) == toordinal(dt) % 7

\* date.weekday(): Monday = 0 ... Sunday = 6
weekday(dt) == (toordinal(dt) + 6) % 7

\* date - timedelta(days=k), date + timedelta(days=k)
date_sub(dt, k) == fromordinal(toordinal(dt) - k)
date_add(dt, k) == fromordinal(toordinal(dt) + k)

\* byte value of a character
byte(c) == CASE c = "-" -> 45
             [] c = "0" -> 48 [] c = "1" -> 49 [] c = "2" -> 50 [] c = "3" -> 51 [] c = "4" -> 52
             [] c = "5" -> 53 [] c = "6" -> 54 [] c = "7" -> 55 [] c = "8" -> 56 [] c = "9" -> 57
             [] c = "A" -> 65 [] c = "E" -> 69 [] c = "M" -> 77
             [] c = "e" -> 101 [] c = "f" -> 102 [] c = "g" -> 103 [] c = "i" -> 105
             [] c = "n" -> 110 [] c = "o" -> 111 [] c = "r" -> 114 [] c = "t" -> 116
             [] c = "v" -> 118

\* datetime.strptime(text, '%Y-%m-%d') of a text strftime wrote
strptime(t) ==
    LET v(i) == byte(t[i]) - 48 IN
    Date(v(1) * 1000 + v(2) * 100 + v(3) * 10 + v(4), v(6) * 10 + v(7), v(9) * 10 + v(10))

\* date.strftime('%Y-%m-%d') as a sequence of characters
digit(n) == CASE n = 0 -> "0" [] n = 1 -> "1" [] n = 2 -> "2" [] n = 3 -> "3" [] n = 4 -> "4"
              [] n = 5 -> "5" [] n = 6 -> "6" [] n = 7 -> "7" [] n = 8 -> "8" [] n = 9 -> "9"

strftime(dt) ==
    << digit((dt.year \div 1000) % 10), digit((dt.year \div 100) % 10),
       digit((dt.year \div 10) % 10), digit(dt.year % 10), "-",
       digit(dt.month \div 10), digit(dt.month % 10), "-",
       digit(dt.day \div 10), digit(dt.day % 10) >>

-----------------------------------------------------------------------------
(* TEXT values and their BINARY collation *)

Morning   == <<"M", "o", "r", "n", "i", "n", "g">>
Afternoon == <<"A", "f", "t", "e", "r", "n", "o", "o", "n">>
Evening   == <<"E", "v", "e", "n", "i", "n", "g">>

\* the options of both session selectboxes, in declared order
sessions == <<Morning, Afternoon, Evening>>
days == <<"Monday", "Tuesday", "Wednesday", "Thursday", "Friday", "Saturday", "Sunday">>

\* memcmp order on TEXT: a < b
RECURSIVE text_less(_, _)
text_less(a, b) ==
    IF b = <<>> THEN FALSE
    ELSE IF a = <<>> THEN TRUE
    ELSE IF byte(Head(a)) # byte(Head(b)) THEN byte(Head(a)) < byte(Head(b))
    ELSE text_less(Tail(a), Tail(b))

-----------------------------------------------------------------------------
(* Inputs *)

\* the day the application is used: datetime.today()
Today == Date(2024, 3, 9)

\* dates offered to the Weekly Calendar date input: the Sunday of Today's week and a
\* Wednesday of the week after it
CalDates == {Date(2024, 3, 10), Date(2024, 3, 13)}

\* reference dates of the week computation: 2024-02-15 .. 2025-01-15 at RefSpan = 335
RefDates == {fromordinal(toordinal(Date(2024, 2, 15)) + k) : k \in 0..RefSpan}

Form(course_name, course_code, teacher, lesson, notes, study_date, session, color) ==
    [course_name |-> course_name, course_code |-> course_code, teacher |-> teacher,
     lesson |-> lesson, notes |-> notes, study_date |-> study_date, session |-> session,
     color |-> color]

\* submitted forms of the specification of the store: two complete forms that differ
\* in each of the eight fields, and three that leave one starred field empty
FormInputs ==
    { Form("Calculus I", "MATH101", "Dr. Smith", "Chapter 3: Derivatives", "bring calculator",
           Date(2024, 3, 10), Evening, "#4CAF50"),
      Form("Physics II", "PHYS201", "Dr. Jones", "", "", Date(2024, 3, 9), Morning, "#FF5722"),
      Form("", "CHEM110", "Dr. Lee", "Lab 1", "", Date(2024, 3, 15), Afternoon, "#2196F3"),
      Form("Biology", "", "Dr. Lee", "", "", Date(2024, 3, 15), Afternoon, "#2196F3"),
      Form("Biology", "BIO120", "", "", "", Date(2024, 3, 15), Afternoon, "#2196F3") }

\* submitted forms of the specification of the views: one course on every
\* (study date, session) of three dates
ViewInputs ==
    { Form("Calculus I", "MATH101", "Dr. Smith", "Chapter 3: Derivatives", "", d, sessions[k],
           "#4CAF50") : d \in {Date(2024, 3, 9), Date(2024, 3, 10), Date(2024, 3, 15)}, k \in 1..3 }

-----------------------------------------------------------------------------
(* Table schedules and the four statements *)

Ids(rs) == {r.id : r \in rs}

Max(S) == CHOOSE x \in S : \A y \in S : y <= x

\* rowid of INTEGER PRIMARY KEY without AUTOINCREMENT: one more than the largest rowid in the table
rowid_without_autoincrement(rs, sq) == Max(Ids(rs) \cup {0}) + 1

\* rowid of INTEGER PRIMARY KEY AUTOINCREMENT: one more than the largest rowid ever used
NextRowid(rs, sq) == Max(Ids(rs) \cup {sq}) + 1

\* INSERT that binds the lesson parameter to column notes too
add_schedule_notes_from_lesson(course_name, course_code, teacher, lesson, notes, study_date, session, color) ==
    LET id == NextRowid(rows, seq) IN
    /\ rows' = rows \cup {[id |-> id, course_name |-> course_name, course_code |-> course_code,
                           teacher |-> teacher, lesson |-> lesson, notes |-> lesson,
                           study_date |-> study_date, session |-> session, color |-> color,
                           created_at |-> now]}
    /\ seq' = id
    /\ issued' = issued \cup {id}

add_schedule(course_name, course_code, teacher, lesson, notes, study_date, session, color) ==
    LET id == NextRowid(rows, seq) IN
    /\ rows' = rows \cup {[id |-> id, course_name |-> course_name, course_code |-> course_code,
                           teacher |-> teacher, lesson |-> lesson, notes |-> notes,
                           study_date |-> study_date, session |-> session, color |-> color,
                           created_at |-> now]}
    /\ seq' = id
    /\ issued' = issued \cup {id}

\* ORDER BY study_date, session: row a may come before row b
order_by_key_leq(a, b) ==
    \/ text_less(a.study_date, b.study_date)
    \/ /\ a.study_date = b.study_date
       /\ ~text_less(b.session, a.session)

\* SELECT * FROM schedules ORDER BY study_date, session: the set of the orders of the
\* rows the ORDER BY allows (SQL leaves the order of rows with equal keys open)
get_all_schedules(rs) ==
    LET n == Cardinality(rs) IN
    { l \in [1..n -> rs] :
        /\ \A i, j \in 1..n : i # j => l[i] # l[j]
        /\ \A i, j \in 1..n : i < j => order_by_key_leq(l[i], l[j]) }

\* UPDATE without its WHERE clause
update_schedule_no_where(schedule_id, course_name, course_code, teacher, lesson, notes, study_date, session, color) ==
    rows' = { [r EXCEPT !.course_name = course_name, !.course_code = course_code,
                        !.teacher = teacher, !.lesson = lesson, !.notes = notes,
                        !.study_date = study_date, !.session = session, !.color = color]
              : r \in rows }

update_schedule(schedule_id, course_name, course_code, teacher, lesson, notes, study_date, session, color) ==
    rows' = { IF r.id = schedule_id
              THEN [r EXCEPT !.course_name = course_name, !.course_code = course_code,
                             !.teacher = teacher, !.lesson = lesson, !.notes = notes,
                             !.study_date = study_date, !.session = session, !.color = color]
              ELSE r : r \in rows }

\* DELETE ... WHERE id<=?
delete_schedule_leq(schedule_id) == rows' = {r \in rows : ~(r.id <= schedule_id)}

delete_schedule(schedule_id) == rows' = {r \in rows : ~(r.id = schedule_id)}

-----------------------------------------------------------------------------
(* Weekly Calendar *)

\* week_start = selected_date - timedelta(days=selected_date.weekday())
week_start == date_sub(selected_date, weekday(selected_date))

\* week_dates = [week_start + timedelta(days=i) for i in range(7)]
week_dates == [i \in 1..7 |-> date_add(week_start, i - 1)]

\* the (day, session) cells of the grid: day 1..7 indexes days and week_dates,
\* slot 1..3 indexes sessions
CellIds == (1..7) \X (1..3)

\* the filter of a cell without its session condition
day_schedules_any_session(l, date, session) ==
    SelectSeq(l, LAMBDA r : r.study_date = strftime(date))

\* df[(df['study_date'] == date.strftime('%Y-%m-%d')) & (df['session'] == session)]
day_schedules(l, date, session) ==
    SelectSeq(l, LAMBDA r : r.study_date = strftime(date) /\ r.session = session)

\* the coloured card of one schedule; lesson_text is the lesson unless it is empty
\* (no form of the model holds a lesson of white space only)
Card(session, schedule) ==
    [kind |-> "card", session |-> session, schedule |-> schedule,
     lesson_text |-> IF schedule.lesson # "" THEN schedule.lesson ELSE ""]

\* the grey dashed placeholder
Free(session) == [kind |-> "free", session |-> session]

\* a cell that draws nothing when its filter selects no row
RenderCell_nothing_when_empty(l, date, session) ==
    LET sel == day_schedules(l, date, session) IN
    [j \in 1..Len(sel) |-> Card(session, sel[j])]

\* what one cell draws, top to bottom
RenderCell(l, date, session) ==
    LET sel == day_schedules(l, date, session) IN
    IF sel # <<>>
    THEN [j \in 1..Len(sel) |-> Card(session, sel[j])]
    ELSE <<Free(session)>>

\* the grid drawn for DataFrame l; with an empty DataFrame st.info is shown and no cell is drawn
WeeklyCalendar(l) ==
    LET wd == week_dates IN
    IF l # <<>>
    THEN [c \in CellIds |-> RenderCell(l, wd[c[1]], sessions[c[2]])]
    ELSE [c \in CellIds |-> <<>>]

-----------------------------------------------------------------------------
(* The script runs *)

Init ==
    /\ rows = {}
    /\ seq = 0
    /\ now = 0
    /\ selected_date = Today
    /\ last = [op |-> "init"]
    /\ issued = {}

\* time passes
Tick ==
    /\ now < MaxClock
    /\ now' = now + 1
    /\ UNCHANGED <<rows, seq, selected_date, last, issued>>

\* sidebar: "Add Schedule" submitted with the form holding inp
AddSubmit(inp) ==
    /\ toordinal(inp.study_date) >= toordinal(Today)
    /\ IF inp.course_name # "" /\ inp.course_code # "" /\ inp.teacher # ""
       THEN /\ seq < MaxSeq
            /\ add_schedule(inp.course_name, inp.course_code, inp.teacher, inp.lesson, inp.notes,
                            strftime(inp.study_date), inp.session, inp.color)
            /\ last' = [op |-> "add", id |-> seq', input |-> inp, msg |-> "success"]
       ELSE /\ UNCHANGED <<rows, seq, issued>>
            /\ last' = [op |-> "add", id |-> 0, input |-> inp, msg |-> "error"]
    /\ UNCHANGED <<now, selected_date>>

\* Weekly Calendar: another date picked
SelectDate(d) ==
    /\ selected_date' = d
    /\ last' = [op |-> "select_date"]
    /\ UNCHANGED <<rows, seq, now, issued>>

(* Manage tab.  schedule_id is the id of a row of the DataFrame the run read at  *)
(* line 296.  The database file is shared by every browser session, and the run *)
(* of another session may have deleted that row since: schedule_id is an id the *)
(* table holds or has held.                                                     *)

\* "Update Schedule" submitted with the form holding inp
UpdateSubmit(schedule_id, inp) ==
    /\ schedule_id \in issued
    /\ update_schedule(schedule_id, inp.course_name, inp.course_code, inp.teacher, inp.lesson,
                       inp.notes, strftime(inp.study_date), inp.session, inp.color)
    /\ last' = [op |-> "update", id |-> schedule_id, input |-> inp, msg |-> "success",
                row_existed |-> schedule_id \in Ids(rows)]
    /\ UNCHANGED <<seq, now, selected_date, issued>>

\* "Delete This Schedule" clicked
DeleteClick(schedule_id) ==
    /\ schedule_id \in issued
    /\ delete_schedule(schedule_id)
    /\ last' = [op |-> "delete", id |-> schedule_id, msg |-> "success",
                row_existed |-> schedule_id \in Ids(rows)]
    /\ UNCHANGED <<seq, now, selected_date, issued>>

\* the store under the forms of FormInputs
Next ==
    \/ Tick
    \/ \E inp \in FormInputs : AddSubmit(inp)
    \/ \E id \in 1..MaxSeq, inp \in FormInputs : UpdateSubmit(id, inp)
    \/ \E id \in 1..MaxSeq : DeleteClick(id)

Spec == Init /\ [][Next]_vars

\* the listing and the grid under the forms of ViewInputs
NextView ==
    \/ \E inp \in ViewInputs : AddSubmit(inp)
    \/ \E id \in 1..MaxSeq, inp \in ViewInputs : UpdateSubmit(id, inp)
    \/ \E id \in 1..MaxSeq : DeleteClick(id)
    \/ \E d \in CalDates : SelectDate(d)

SpecView == Init /\ [][NextView]_vars

\* the week computation on every reference date
NextWeek == \E d \in RefDates : SelectDate(d)

SpecWeek == Init /\ [][NextWeek]_vars

-----------------------------------------------------------------------------
(* Vocabulary of the properties *)

\* position of a session in the declared order Morning, Afternoon, Evening
SessionRank(s) == CHOOSE k \in 1..3 : sessions[k] = s

\* the day number of a stored study_date
DayOf(r) == toordinal(strptime(r.study_date))

\* (studyDate ascending, session ascending by declared order): a may come before b
EnumOrderLeq(a, b) ==
    \/ DayOf(a) < DayOf(b)
    \/ DayOf(a) = DayOf(b) /\ SessionRank(a.session) <= SessionRank(b.session)

\* the eight fields of stored row r are those of form inp
Carries(r, inp) ==
    /\ r.course_name = inp.course_name
    /\ r.course_code = inp.course_code
    /\ r.teacher = inp.teacher
    /\ r.lesson = inp.lesson
    /\ r.notes = inp.notes
    /\ strptime(r.study_date) = inp.study_date
    /\ r.session = inp.session
    /\ r.color = inp.color

\* a form the contract of create calls valid
ValidInput(inp) ==
    /\ inp.course_name # "" /\ inp.course_code # "" /\ inp.teacher # ""
    /\ inp.session \in {Morning, Afternoon, Evening}

AllForms == FormInputs \cup ViewInputs

\* the elements of a listing
Range(l) == {l[i] : i \in DOMAIN l}

-----------------------------------------------------------------------------
(* Properties of the store *)

\* C1: every listing get_all_schedules returns is sorted by study date ascending and,
\* within one date, by session in the declared order Morning < Afternoon < Evening.
C1_ListAllSortedByDateThenEnumOrder ==
    \A l \in get_all_schedules(rows) :
        \A i, j \in 1..Len(l) : i < j => EnumOrderLeq(l[i], l[j])

\* C2: an update or a delete of an id that is not in the table shows an outcome other
\* than success and leaves the table as it was.
C2_MissingIdIsReportedNotFound ==
    [][ /\ \A id \in 1..MaxSeq, inp \in AllForms :
              (UpdateSubmit(id, inp) /\ id \notin Ids(rows))
                  => (last'.msg # "success" /\ rows' = rows)
        /\ \A id \in 1..MaxSeq :
              (DeleteClick(id) /\ id \notin Ids(rows))
                  => (last'.msg # "success" /\ rows' = rows) ]_vars

\* C3: every stored row has non-empty course_name, course_code, teacher, study_date
\* and session, and its session is Morning, Afternoon or Evening.
C3_MandatoryFieldsNeverEmpty ==
    \A r \in rows :
        /\ r.course_name # "" /\ r.course_code # "" /\ r.teacher # ""
        /\ r.study_date # <<>> /\ r.session # <<>>
        /\ r.session \in {Morning, Afternoon, Evening}

\* C4: a create with a valid form adds exactly one row: the listing is one longer, the
\* new row carries the form's eight fields, its id is the id of no other row, and every
\* row stored before is still there unchanged.
C4_CreateAddsExactlyTheInput ==
    [][ \A inp \in AllForms :
            (AddSubmit(inp) /\ ValidInput(inp)) =>
                /\ \E r \in rows' :
                      /\ r \notin rows
                      /\ rows' = rows \cup {r}
                      /\ Carries(r, inp)
                      /\ \A o \in rows' : o.id = r.id => o = r
                /\ \A l \in get_all_schedules(rows), m \in get_all_schedules(rows') :
                      Len(m) = Len(l) + 1 /\ Range(l) \subseteq Range(m) ]_vars

\* a create with a valid form into a table that already holds a row
C4_Witness ==
    /\ last.op = "add" /\ last.msg = "success"
    /\ \E r \in rows : r.id = last.id /\ Carries(r, last.input)
    /\ \E o \in rows : o.id # last.id

\* C5: no two stored rows share an id, and the id a create assigns was never assigned
\* before, also when the row that had the highest id has been deleted.
C5_IdsUniqueAndNeverReused ==
    [][ /\ \A r1, r2 \in rows' : r1.id = r2.id => r1 = r2
        /\ \A inp \in AllForms :
              (AddSubmit(inp) /\ ValidInput(inp)) =>
                  \A r \in rows' \ rows : r.id \notin issued /\ r.id \notin Ids(rows) ]_vars

\* a create right after the row with the highest id was deleted
C5_Witness ==
    /\ last.op = "add" /\ last.msg = "success"
    /\ last.id \in Ids(rows)
    /\ last.id - 1 \in issued \ Ids(rows)

\* C6: an update of a stored id replaces the eight fields of that row by the form's,
\* keeps its id and created_at, leaves every other row unchanged, and the same update
\* made again changes nothing.
C6_UpdateReplacesOnlyThatRow ==
    [][ \A id \in 1..MaxSeq, inp \in AllForms :
            (UpdateSubmit(id, inp) /\ id \in Ids(rows)) =>
                /\ \E old \in rows, new \in rows' :
                      /\ old.id = id /\ new.id = id
                      /\ Carries(new, inp)
                      /\ new.created_at = old.created_at
                      /\ rows' = (rows \ {old}) \cup {new}
                /\ \A o \in rows : o.id # id => o \in rows'
                /\ Cardinality(rows') = Cardinality(rows)
                /\ (last.op = "update" /\ last.id = id /\ last.input = inp) => rows' = rows ]_vars

\* an update, made after the clock moved, of one of two stored rows
C6_Witness ==
    /\ last.op = "update" /\ last.row_existed
    /\ \E r \in rows : r.id = last.id /\ Carries(r, last.input) /\ r.created_at < now
    /\ \E o \in rows : o.id # last.id

\* C7: a delete of a stored id removes the row with that id and no other: the listing
\* is one shorter, no row has that id, every other row is still there unchanged.
C7_DeleteRemovesExactlyThatRow ==
    [][ \A id \in 1..MaxSeq :
            (DeleteClick(id) /\ id \in Ids(rows)) =>
                /\ id \notin Ids(rows')
                /\ \A o \in rows : o.id # id => o \in rows'
                /\ rows' \subseteq rows
                /\ \A l \in get_all_schedules(rows), m \in get_all_schedules(rows') :
                      Len(m) = Len(l) - 1 ]_vars

\* a delete of the lower of two stored ids
C7_Witness ==
    /\ last.op = "delete" /\ last.row_existed
    /\ last.id \notin Ids(rows)
    /\ \E o \in rows : o.id > last.id

-----------------------------------------------------------------------------
(* Properties of the Weekly Calendar *)

\* day of the week by Zeller's congruence: 0 = Saturday, 1 = Sunday, 2 = Monday, ...
Zeller(dt) ==
    LET m == IF dt.month < 3 THEN dt.month + 12 ELSE dt.month
        y == IF dt.month < 3 THEN dt.year - 1 ELSE dt.year
        k == y % 100
        j == y \div 100
    IN  (dt.day + ((13 * (m + 1)) \div 5) + k + (k \div 4) + (j \div 4) + 5 * j) % 7

\* the calendar day after dt
DayAfter(dt) ==
    IF dt.day < days_in_month(dt.year, dt.month) THEN Date(dt.year, dt.month, dt.day + 1)
    ELSE IF dt.month < 12 THEN Date(dt.year, dt.month + 1, 1)
    ELSE Date(dt.year + 1, 1, 1)

\* dt is one of the n days starting at day a
RECURSIVE WithinDays(_, _, _)
WithinDays(dt, a, n) == n > 0 /\ (dt = a \/ WithinDays(dt, DayAfter(a), n - 1))

\* C8: week_start is a Monday, the selected date is one of the 7 days starting at
\* week_start, and week_dates are those 7 consecutive days, Monday to Sunday, in order;
\* for 2024-03-13 they are 2024-03-11 .. 2024-03-17.
C8_WeekIsMondayToSunday ==
    /\ Zeller(week_start) = 2
    /\ WithinDays(selected_date, week_start, 7)
    /\ DOMAIN week_dates = 1..7
    /\ DOMAIN days = 1..7 /\ days[1] = "Monday" /\ days[7] = "Sunday"
    /\ week_dates[1] = week_start
    /\ \A i \in 1..6 : week_dates[i + 1] = DayAfter(week_dates[i])
    /\ \A i \in 1..7 : Zeller(week_dates[i]) = (i + 1) % 7
    /\ selected_date = Date(2024, 3, 13) =>
          /\ week_start = Date(2024, 3, 11)
          /\ week_dates = [i \in 1..7 |-> Date(2024, 3, 10 + i)]

\* a Sunday whose week began in the year before
C8_Witness ==
    /\ last.op = "select_date"
    /\ selected_date = Date(2025, 1, 5)
    /\ week_start = Date(2024, 12, 30)
    /\ week_dates[7] = selected_date

\* the rows whose study date is day c[1] of week wd and whose session is slot c[2]
Matching(wd, c) ==
    {r \in rows : strptime(r.study_date) = wd[c[1]] /\ r.session = sessions[c[2]]}

\* the study date of r is a day of week wd
InWeek(wd, r) == \E i \in 1..7 : strptime(r.study_date) = wd[i]

\* how many of the blocks drawn in a cell are cards of row r
CardsOf(blocks, r) ==
    Cardinality({j \in DOMAIN blocks : blocks[j].kind = "card" /\ blocks[j].schedule = r})

\* C9: a stored row dated in the selected week is drawn exactly once, in the cell of its
\* own day and session, also when other rows share that cell; a row dated outside the
\* week is drawn in no cell.
C9_EachEntryInItsOwnCellOnce ==
    LET wd == week_dates IN
    \A l \in get_all_schedules(rows) :
        LET g == WeeklyCalendar(l) IN
        \A c \in CellIds :
            LET blocks == g[c]
                own == Matching(wd, c)
            IN  \A r \in rows : CardsOf(blocks, r) = IF r \in own THEN 1 ELSE 0

\* two rows share a cell of the selected week, and that cell draws two cards
C9_Witness ==
    LET wd == week_dates IN
    \E c \in CellIds :
        /\ Cardinality(Matching(wd, c)) >= 2
        /\ \A l \in get_all_schedules(rows) :
              /\ Len(WeeklyCalendar(l)[c]) = Cardinality(Matching(wd, c))
              /\ \A j \in 1..Len(WeeklyCalendar(l)[c]) : WeeklyCalendar(l)[c][j].kind = "card"

\* C10 as claimed: whatever the table holds, every cell without a matching row shows the
\* "Free" placeholder.
C10_EveryEmptyCellShowsFree ==
    LET wd == week_dates IN
    \A l \in get_all_schedules(rows) :
        LET g == WeeklyCalendar(l) IN
        \A c \in CellIds :
            Matching(wd, c) = {} => g[c] = <<Free(sessions[c[2]])>>

\* C10: while the table holds a row, every cell without a matching row shows the "Free"
\* placeholder; while the table is empty no cell is drawn at all.
C10_EmptyCellShowsFreeUnlessTableEmpty ==
    LET wd == week_dates IN
    \A l \in get_all_schedules(rows) :
        LET g == WeeklyCalendar(l) IN
        \A c \in CellIds :
            /\ (rows # {} /\ Matching(wd, c) = {}) => g[c] = <<Free(sessions[c[2]])>>
            /\ rows = {} => g[c] = <<>>

\* the table holds rows, all outside the selected week: 21 placeholders
C10_Witness ==
    /\ rows # {}
    /\ last.op = "select_date"
    /\ \A r \in rows : ~InWeek(week_dates, r)
    /\ \A l \in get_all_schedules(rows), c \in CellIds :
          WeeklyCalendar(l)[c] = <<Free(sessions[c[2]])>>

====
